---------------------------- MODULE Spec2Model ----------------------------
(***************************************************************************)
(* Dependabot Steward: the check_suite.completed handler of src/app.ts     *)
(* (appFn), modelled as a state machine.  One handler evaluation is a      *)
(* sequence of steps, one per awaited GitHub API call; the code that runs  *)
(* synchronously after an await belongs to the step of that await.         *)
(*                                                                         *)
(* The GitHub side (what the API reports about a pull request and what the *)
(* handler's mutating calls change) is state of the model; everything else *)
(* an API call returns is an input of the step that makes the call.        *)
(***************************************************************************)
EXTENDS Integers, Sequences, FiniteSets, TLC

(***************************************************************************)
(* Program constants.                                                      *)
(***************************************************************************)
dependabotUserId == 49699333
stewardUserId == 241759641
\* Some other account (a human author, reviewer or commenter).
humanUserId == dependabotUserId + 1

stewardYmlFileName == ".steward.yml"

ecosystems ==
    << "bazel", "bun", "bundler", "cargo", "composer", "conda",
       "devcontainers", "docker", "docker_compose", "dotnet_sdk", "elm",
       "git_submodules", "github_actions", "go_modules", "gradle", "helm",
       "hex", "julia", "maven", "npm_and_yarn", "nuget", "pub", "python",
       "rust_toolchain", "swift", "terraform", "uv", "vcpkg" >>

(***************************************************************************)
(* Bounds of the model.                                                    *)
(***************************************************************************)
\* A delivery is accepted only while the steward's comments, posted or
\* in flight, are fewer than this.
MaxComments == 2
\* The most check suites a listSuitesForRef response holds.
MaxSuites == 2

(***************************************************************************)
(* Handlers.  Deliveries are evaluated one after another by handler 1      *)
(* (Spec); handler 2 exists for the interleaved evaluation of two          *)
(* deliveries.                                                             *)
(***************************************************************************)
Procs == {1, 2}

PRNumbers == {1, 2}

(***************************************************************************)
(* JavaScript values of a YAML scalar read as `enable`: undefined (key     *)
(* absent), null, the booleans, and the string "true".                     *)
(***************************************************************************)
JsValues == {"undefined", "null", "true", "false", "'true'"}

\* JavaScript's !v.
Not(v) == v \in {"undefined", "null", "false"}

\* String.prototype.includes.
Includes(s, sub) ==
    \E i \in 1..(Len(s) - Len(sub) + 1) : SubSeq(s, i, i + Len(sub) - 1) = sub

(***************************************************************************)
(* The webhook payload: check_suite.pull_requests.                         *)
(***************************************************************************)
HeadRefs ==
    { "dependabot/npm_and_yarn/lodash-4.17.21",
      "dependabot/docker_compose/redis-7.2",
      "renovate/lodash-4.x" }

PullRequest(n, ref, headRepo) ==
    [number |-> n,
     head |-> [ref |-> ref, repo |-> [id |-> headRepo]],
     base |-> [ref |-> "main", repo |-> [id |-> 1]]]

\* `undefined` as a pull request (Array.prototype.pop of an empty array).
NoPullRequest == PullRequest(0, "", 0)

PullRequests ==
    { PullRequest(1, ref, headRepo) : ref \in HeadRefs, headRepo \in {1, 2} }

\* No pull request, one, or two of which the last is one of number 1.
Payloads ==
    { <<>> } \cup { <<p>> : p \in PullRequests }
      \cup { << PullRequest(2, "dependabot/npm_and_yarn/lodash-4.17.21", 1),
                PullRequest(1, "dependabot/npm_and_yarn/lodash-4.17.21", headRepo) >> :
              headRepo \in {1, 2} }

(***************************************************************************)
(* repos.get: the repository's merge-capability flags.  A flag the         *)
(* response leaves out is undefined, which the code reads as false.        *)
(***************************************************************************)
RepoMetadata ==
    [allow_merge_commit : BOOLEAN, allow_squash_merge : BOOLEAN,
     allow_rebase_merge : BOOLEAN]

NoRepoMetadata ==
    [allow_merge_commit |-> FALSE, allow_squash_merge |-> FALSE,
     allow_rebase_merge |-> FALSE]

\* SelectMergeMethod with the rebase test before the squash test.
SelectMergeMethodRebaseFirst(repoMetadata) ==
    IF repoMetadata.allow_merge_commit THEN "merge"
    ELSE IF repoMetadata.allow_rebase_merge THEN "rebase"
    ELSE IF repoMetadata.allow_squash_merge THEN "squash"
    ELSE ""

\* The if / else if chain that sets merge_method; "" when the chain
\* reaches the throw.
SelectMergeMethod(repoMetadata) ==
    IF repoMetadata.allow_merge_commit THEN "merge"
    ELSE IF repoMetadata.allow_squash_merge THEN "squash"
    ELSE IF repoMetadata.allow_rebase_merge THEN "rebase"
    ELSE ""

(***************************************************************************)
(* repos.getContent for .steward.yml.  The call is rejected (status 404,   *)
(* another status, or an error without a status) or answers with an array  *)
(* (a directory listing) or with one object.  The content of a file is     *)
(* base64 text (well-formed or not) of a YAML document, which is described *)
(* by what yaml.parse makes of it:                                         *)
(*   kind    "error" (yaml.parse throws), "null" (an empty document),      *)
(*           "scalar", "seq" or "map"                                      *)
(*   enable  the top-level enable of a map                                 *)
(*   key     the one ecosystem key of a map ("" for none), whose value is  *)
(*           entry: "null", "scalar" or "map", and the enable of that map  *)
(*           is entryEnable                                                *)
(***************************************************************************)
YamlDocument(kind, enable, key, entry, entryEnable) ==
    [kind |-> kind, enable |-> enable, key |-> key, entry |-> entry,
     entryEnable |-> entryEnable]

EmptyDocument == YamlDocument("null", "undefined", "", "undefined", "undefined")

EcosystemKeys == {"npm_and_yarn", "composer", "docker", "docker_compose"}

YamlDocuments ==
    { YamlDocument(k, "undefined", "", "undefined", "undefined") :
        k \in {"error", "null", "scalar", "seq"} }
      \cup { YamlDocument("map", e, "", "undefined", "undefined") : e \in JsValues }
      \cup { YamlDocument("map", e, key, entry, "undefined") :
               e \in JsValues, key \in EcosystemKeys, entry \in {"null", "scalar"} }
      \cup { YamlDocument("map", e, key, "map", ee) :
               e \in JsValues, key \in EcosystemKeys, ee \in JsValues }

Content(present, base64, doc) ==
    [present |-> present, base64 |-> base64, doc |-> doc]

ContentAnswer(kind, status, type, content, encoding) ==
    [kind |-> kind, status |-> status, type |-> type, content |-> content,
     encoding |-> encoding]

\* A file whose content is the base64 text of doc.
File(doc) == ContentAnswer("object", 200, "file", Content(TRUE, TRUE, doc), "base64")

\* getContent's answer before the call is made.
NoContent ==
    ContentAnswer("none", 0, "", Content(FALSE, FALSE, EmptyDocument), "")

Rejected(status) ==
    ContentAnswer("rejected", status, "", Content(FALSE, FALSE, EmptyDocument), "")

ContentAnswers ==
    { Rejected(status) : status \in {404, 500, 0} }
      \cup { ContentAnswer("array", 200, "", Content(FALSE, FALSE, EmptyDocument), "") }
      \cup { File(doc) : doc \in YamlDocuments }
      \cup { ContentAnswer("object", 200, "file", Content(TRUE, FALSE, EmptyDocument), "base64"),
             ContentAnswer("object", 200, "file", Content(TRUE, TRUE, EmptyDocument), "none") }
      \cup { ContentAnswer("object", 200, type, Content(TRUE, TRUE, EmptyDocument), "base64") :
               type \in {"dir", "symlink", "submodule"} }
      \cup { ContentAnswer("object", 200, type, Content(FALSE, FALSE, EmptyDocument), "") :
               type \in {"symlink", "submodule"} }

\* RepoContentSchema.parse succeeds.
RepoContentSchema(data) ==
    /\ data.kind = "object"
    /\ data.type \in {"file", "dir", "submodule", "symlink"}
    /\ data.content.present
    /\ data.encoding = "base64"

\* The type StewardYml: the value yaml.parse returned is of the type the
\* code gives it.
IsStewardYml(doc) ==
    /\ doc.kind = "map"
    /\ doc.enable \in {"undefined", "true", "false"}
    /\ \/ doc.key = ""
       \/ doc.entry = "map" /\ doc.entryEnable \in {"undefined", "true", "false"}

\* stewardYml[name]: "undefined", "null", "scalar" or "map".
EcosystemEntry(doc, name) ==
    IF doc.kind = "map" /\ doc.key = name THEN doc.entry ELSE "undefined"

\* ecosystems.find(e => headBranch.includes(e)); "" for undefined.
FindEcosystem(headBranch) ==
    LET hits == { i \in 1..Len(ecosystems) : Includes(headBranch, ecosystems[i]) }
    IN  IF hits = {} THEN ""
        ELSE ecosystems[CHOOSE i \in hits : \A j \in hits : i <= j]

thisEcosystemString == [headBranch \in HeadRefs |-> FindEcosystem(headBranch)]

(***************************************************************************)
(* checks.listSuitesForRef, repos.getBranchRules and the check runs of a   *)
(* suite (a GET of its check_runs_url).                                    *)
(***************************************************************************)
CheckSuite(status, count) ==
    [status |-> status, latest_check_runs_count |-> count]

CheckSuites ==
    { CheckSuite(status, count) :
        status \in {"queued", "in_progress", "completed"}, count \in {0, 1} }

\* The sequences of at most n elements of S.
SeqUpTo(S, n) == UNION { [1..k -> S] : k \in 0..n }

\* A listing's suites carry their place in it as check_runs_url.
WithUrls(suites) ==
    [i \in 1..Len(suites) |->
        [status |-> suites[i].status,
         latest_check_runs_count |-> suites[i].latest_check_runs_count,
         check_runs_url |-> i]]

SuiteListing(suites) ==
    [total_count |-> Len(suites), check_suites |-> WithUrls(suites)]

NoSuites == SuiteListing(<<>>)

SuiteListings == { SuiteListing(suites) : suites \in SeqUpTo(CheckSuites, MaxSuites) }

\* The listings the guard chain is explored with: none, no valid suite,
\* one valid suite (completed or not) and two valid completed suites.
FewSuiteListings ==
    { SuiteListing(suites) :
        suites \in { <<>>,
                     << CheckSuite("in_progress", 0) >>,
                     << CheckSuite("in_progress", 1) >>,
                     << CheckSuite("completed", 1) >>,
                     << CheckSuite("completed", 1), CheckSuite("completed", 1) >> } }

BranchRule(type, hasParameters, contexts) ==
    [type |-> type, hasParameters |-> hasParameters, contexts |-> contexts]

CheckNames == {"ci", "lint"}

BranchRuleLists ==
    { <<>>,
      << BranchRule("pull_request", TRUE, <<>>) >>,
      << BranchRule("required_status_checks", FALSE, <<>>) >>,
      << BranchRule("required_status_checks", TRUE, <<>>) >>,
      << BranchRule("required_status_checks", TRUE, <<"ci">>) >>,
      << BranchRule("pull_request", TRUE, <<>>),
         BranchRule("required_status_checks", TRUE, <<"ci", "lint">>) >>,
      << BranchRule("required_status_checks", TRUE, <<"ci">>),
         BranchRule("required_status_checks", TRUE, <<"lint">>) >> }

FewBranchRuleLists ==
    { <<>>, << BranchRule("required_status_checks", TRUE, <<"ci">>) >> }

Conclusions ==
    { "success", "failure", "neutral", "skipped", "timed_out", "cancelled",
      "action_required", "startup_failure", "stale", "null" }

CheckRun(name, conclusion) == [name |-> name, conclusion |-> conclusion]

CheckRuns == { CheckRun(name, c) : name \in CheckNames, c \in Conclusions }

\* The answers of a check-run request: no run, one run of either name
\* with any conclusion, and a ci run and a lint run that each passed or
\* failed.
CheckRunLists ==
    { <<>> }
      \cup { << cr >> : cr \in CheckRuns }
      \cup { << CheckRun("ci", c), CheckRun("lint", d) >> :
               c \in {"success", "failure"}, d \in {"success", "failure"} }

FewCheckRunLists ==
    { <<>>, << CheckRun("ci", "success") >>, << CheckRun("ci", "failure") >> }

\* A check-run request that has not been answered, and one that has.
Pending == [state |-> "pending", check_runs |-> <<>>]

Fulfilled(check_runs) == [state |-> "fulfilled", check_runs |-> check_runs]

\* Array.prototype.flat, and the elements of an array (filter is SelectSeq).
RECURSIVE Flat(_)
Flat(seqs) == IF seqs = <<>> THEN <<>> ELSE Head(seqs) \o Flat(Tail(seqs))

Elements(seq) == { seq[i] : i \in 1..Len(seq) }

(***************************************************************************)
(* State.                                                                  *)
(*   hs        each handler's evaluation: its position (pc), the locals of *)
(*             the handler, the API calls it has made (calls), its log     *)
(*             entries (log) and how it ended (outcome, error).  The       *)
(*             locals keep their values to the end of the evaluation,      *)
(*             except stewardYmlData, which is dropped when the try block  *)
(*             is left; stewardYmlType remembers what was read: "absent"   *)
(*             (404), "StewardYml" (a value of that type) or "other"       *)
(*   merged    GitHub: whether pull request n is merged                    *)
(*   reviews   GitHub: the reviews the steward account submitted on n      *)
(*   comments  GitHub: the comments the steward account posted on n        *)
(*   pending   createComment requests issued (the call is not awaited) and  *)
(*             not yet answered                                            *)
(***************************************************************************)
VARIABLES hs, merged, reviews, comments, pending

vars == <<hs, merged, reviews, comments, pending>>

github == <<merged, reviews, comments, pending>>

NoPrData == [merged |-> FALSE, user |-> [id |-> 0]]

\* A handler between deliveries, and the locals of a fresh evaluation.
Idle ==
    [pc |-> "idle",
     payload |-> <<>>,
     pull_number |-> 0,            \* 0: undefined
     repoMetadata |-> NoRepoMetadata,
     merge_method |-> "",          \* "": not assigned
     pr |-> NoPullRequest,
     prReviewsData |-> <<>>,
     prData |-> NoPrData,
     hasComment |-> FALSE,
     stewardYmlData |-> NoContent,
     stewardYmlType |-> "",        \* "": no .steward.yml was read
     headSuitesData |-> NoSuites,
     validSuites |-> <<>>,
     requiredChecks |-> <<>>,
     checkRuns |-> <<>>,           \* per valid suite, its check-run request
     processMerge |-> "",          \* "": the inner function has not returned
     outcome |-> "",               \* "returned" | "threw"
     error |-> "",
     calls |-> <<>>,
     log |-> <<>>]

Call(op, n, arg) == [op |-> op, pull_number |-> n, arg |-> arg]

LogEntry(level, n, msg) == [level |-> level, pull_number |-> n, msg |-> msg]

\* Throw with the error swallowed: the handler returns normally.
ThrowSwallowed(s, err) == [s EXCEPT !.pc = "done", !.outcome = "returned"]

\* The handler's promise is rejected with `err`.
Throw(s, err) == [s EXCEPT !.pc = "done", !.outcome = "threw", !.error = err]

\* processMerge is false: nothing follows the inner function.
ReturnFalse(s) ==
    [s EXCEPT !.pc = "done", !.outcome = "returned", !.processMerge = "false"]

\* processMerge is true: the pull_number test, then on to the approval.
ReturnTrue(s) ==
    IF s.pull_number = 0
    THEN Throw([s EXCEPT !.processMerge = "true"],
               "Pull request number is undefined after successful processing.")
    ELSE [s EXCEPT !.pc = "pulls.createReview", !.processMerge = "true"]

Running(h) == hs[h].pc \notin {"idle", "done"}

Init ==
    /\ hs = [h \in Procs |-> Idle]
    /\ merged \in [PRNumbers -> BOOLEAN]
    /\ reviews = [n \in PRNumbers |-> <<>>]
    /\ comments = [n \in PRNumbers |-> <<>>]
    /\ pending = <<>>

(***************************************************************************)
(* A check_suite.completed delivery reaches handler h.                     *)
(***************************************************************************)
StewardComments ==
    Len(pending) + Len(comments[1]) + Len(comments[2])

Receive(h, payloads) ==
    /\ ~Running(h)
    /\ StewardComments < MaxComments
    /\ \E payload \in payloads :
         hs' = [hs EXCEPT ![h] =
                  [Idle EXCEPT !.pc = "repos.get", !.payload = payload]]
    /\ UNCHANGED github

(***************************************************************************)
(* repos.get and the choice of merge_method.                               *)
(***************************************************************************)
\* ReposGetReturns with 'merge' as the method when no flag is true.
ReposGetReturnsDefaultMerge(s, repoMetadata) ==
    LET method == SelectMergeMethod(repoMetadata)
    IN  [s EXCEPT !.repoMetadata = repoMetadata,
                  !.merge_method = IF method = "" THEN "merge" ELSE method,
                  !.pc = "processMerge"]

ReposGetReturns(s, repoMetadata) ==
    LET t == [s EXCEPT !.repoMetadata = repoMetadata,
                       !.merge_method = SelectMergeMethod(repoMetadata)]
    IN  IF t.merge_method = ""
        THEN Throw(t, "No allowed merge method found for the repository.")
        ELSE [t EXCEPT !.pc = "processMerge"]

ReposGet(h, metadata) ==
    /\ hs[h].pc = "repos.get"
    /\ LET s == [hs[h] EXCEPT !.calls = Append(@, Call("repos.get", 0, ""))]
       IN  \/ hs' = [hs EXCEPT ![h] = Throw(s, "HttpError")]
           \/ \E repoMetadata \in metadata :
                hs' = [hs EXCEPT ![h] = ReposGetReturns(s, repoMetadata)]
    /\ UNCHANGED github

(***************************************************************************)
(* processMerge up to its first await: the pull request is popped off the  *)
(* payload; the no-pull-request and the fork guards.                       *)
(***************************************************************************)
\* Pop taking the first pull request (shift) for the last.
PopFirst(payload) ==
    IF payload = <<>>
    THEN [rest |-> <<>>, pr |-> NoPullRequest]
    ELSE [rest |-> Tail(payload), pr |-> Head(payload)]

\* suite.pull_requests.pop()
Pop(payload) ==
    IF payload = <<>>
    THEN [rest |-> <<>>, pr |-> NoPullRequest]
    ELSE [rest |-> SubSeq(payload, 1, Len(payload) - 1),
          pr |-> payload[Len(payload)]]

\* IsFork with the comparison inverted.
IsForkInverted(pr) == pr.base.repo.id = pr.head.repo.id

\* pr.base.repo.id !== pr.head.repo.id
IsFork(pr) == pr.base.repo.id # pr.head.repo.id

\* EnterProcessMerge answering true, for pull request 1, when the check
\* suite has no pull request.
EnterProcessMergeTrueWithoutPr(s) ==
    LET popped == Pop(s.payload)
        t == [s EXCEPT !.payload = popped.rest, !.pr = popped.pr]
    IN  IF popped.pr = NoPullRequest
        THEN [t EXCEPT !.pull_number = 1, !.processMerge = "true",
                       !.pc = "pulls.createReview"]
        ELSE IF IsFork(popped.pr)
        THEN ReturnFalse([t EXCEPT !.log = Append(@,
                 LogEntry("warn", t.pull_number, "is from a fork, skipping auto-merge."))])
        ELSE [t EXCEPT !.pull_number = popped.pr.number,
                       !.pc = "pulls.listReviews"]

EnterProcessMerge(s) ==
    LET popped == Pop(s.payload)
        t == [s EXCEPT !.payload = popped.rest, !.pr = popped.pr]
    IN  IF popped.pr = NoPullRequest
        THEN ReturnFalse([t EXCEPT !.log = Append(@,
                 LogEntry("warn", -1, "No pull request found in the check suite."))])
        ELSE IF IsFork(popped.pr)
        THEN ReturnFalse([t EXCEPT !.log = Append(@,
                 LogEntry("warn", t.pull_number, "is from a fork, skipping auto-merge."))])
        ELSE [t EXCEPT !.pull_number = popped.pr.number,
                       !.pc = "pulls.listReviews"]

PopPullRequest(h) ==
    /\ hs[h].pc = "processMerge"
    /\ hs' = [hs EXCEPT ![h] = EnterProcessMerge(hs[h])]
    /\ UNCHANGED github

(***************************************************************************)
(* pulls.listReviews and the already-reviewed guard.                       *)
(***************************************************************************)
\* ReviewedBySteward with the wrong account's id.
ReviewedByDependabot(prReviewsData) ==
    \E i \in 1..Len(prReviewsData) : prReviewsData[i].user.id = dependabotUserId

\* prReviewsData.some(r => r.user?.id === stewardUserId)
ReviewedBySteward(prReviewsData) ==
    \E i \in 1..Len(prReviewsData) : prReviewsData[i].user.id = stewardUserId

\* ListReviewsReturns without the reviewed guard.
ListReviewsReturnsUnchecked(s, prReviewsData) ==
    [s EXCEPT !.prReviewsData = prReviewsData, !.pc = "pulls.get"]

ListReviewsReturns(s, prReviewsData) ==
    LET t == [s EXCEPT !.prReviewsData = prReviewsData]
    IN  IF ReviewedBySteward(prReviewsData)
        THEN ReturnFalse([t EXCEPT !.log = Append(@,
                 LogEntry("warn", t.pull_number,
                          "is already reviewed by steward, skipping auto-merge."))])
        ELSE [t EXCEPT !.pc = "pulls.get"]

ListReviews(h) ==
    /\ hs[h].pc = "pulls.listReviews"
    /\ LET n == hs[h].pull_number
           s == [hs[h] EXCEPT !.calls = Append(@, Call("pulls.listReviews", n, ""))]
       IN  \/ hs' = [hs EXCEPT ![h] = Throw(s, "HttpError")]
           \/ \E others \in {<<>>, << [user |-> [id |-> humanUserId]] >>} :
                hs' = [hs EXCEPT ![h] = ListReviewsReturns(s, others \o reviews[n])]
    /\ UNCHANGED github

(***************************************************************************)
(* pulls.get and the already-merged and the author guards.                 *)
(***************************************************************************)
\* FromDependabot with >= for ===.
FromDependabotOrLater(prData) == prData.user.id >= dependabotUserId

\* prData.user.id !== dependabotUserId, negated
FromDependabot(prData) == prData.user.id = dependabotUserId

\* PullsGetReturns with the author test before the merged test.
PullsGetReturnsAuthorFirst(s, prData) ==
    LET t == [s EXCEPT !.prData = prData]
    IN  IF ~FromDependabot(prData)
        THEN ReturnFalse([t EXCEPT !.log = Append(@,
                 LogEntry("warn", t.pull_number,
                          "is not from Dependabot, skipping auto-merge."))])
        ELSE IF prData.merged
        THEN ReturnFalse([t EXCEPT !.log = Append(@,
                 LogEntry("warn", t.pull_number,
                          "is already merged, skipping auto-merge."))])
        ELSE [t EXCEPT !.pc = "issues.listComments"]

PullsGetReturns(s, prData) ==
    LET t == [s EXCEPT !.prData = prData]
    IN  IF prData.merged
        THEN ReturnFalse([t EXCEPT !.log = Append(@,
                 LogEntry("warn", t.pull_number,
                          "is already merged, skipping auto-merge."))])
        ELSE IF ~FromDependabot(prData)
        THEN ReturnFalse([t EXCEPT !.log = Append(@,
                 LogEntry("warn", t.pull_number,
                          "is not from Dependabot, skipping auto-merge."))])
        ELSE [t EXCEPT !.pc = "issues.listComments"]

PullsGet(h) ==
    /\ hs[h].pc = "pulls.get"
    /\ LET n == hs[h].pull_number
           s == [hs[h] EXCEPT !.calls = Append(@, Call("pulls.get", n, ""))]
       IN  \/ hs' = [hs EXCEPT ![h] = Throw(s, "HttpError")]
           \/ \E author \in {dependabotUserId, humanUserId} :
                hs' = [hs EXCEPT ![h] =
                         PullsGetReturns(s, [merged |-> merged[n],
                                             user |-> [id |-> author]])]
    /\ UNCHANGED github

(***************************************************************************)
(* issues.listComments: whether the steward has commented already.         *)
(***************************************************************************)
\* CommentedBySteward without the test of the author.
CommentedByAnyone(data) == data # <<>>

\* data.some(c => c.user?.id === stewardUserId)
CommentedBySteward(data) ==
    \E i \in 1..Len(data) : data[i].user.id = stewardUserId

ListComments(h) ==
    /\ hs[h].pc = "issues.listComments"
    /\ LET n == hs[h].pull_number
           s == [hs[h] EXCEPT !.calls = Append(@, Call("issues.listComments", n, ""))]
       IN  \/ hs' = [hs EXCEPT ![h] = Throw(s, "HttpError")]
           \/ \E others \in {<<>>, << [user |-> [id |-> humanUserId], body |-> "LGTM"] >>} :
                hs' = [hs EXCEPT ![h] =
                         [s EXCEPT !.hasComment = CommentedBySteward(others \o comments[n]),
                                   !.pc = "repos.getContent"]]
    /\ UNCHANGED github

(***************************************************************************)
(* repos.getContent and the try / catch around the configuration: the      *)
(* whole block runs without another await, so it is one step.  A step of   *)
(* the block yields the handler's next state (s) and the body of the       *)
(* comment it asks GitHub to create ("" for none).                         *)
(***************************************************************************)
Step(s, body) == [s |-> s, body |-> body]

\* The body of the comment (the code's text puts .steward.yml in backquotes).
NotAFileBody == "Configuration invalid: .steward.yml must be a file."

\* log.warn, createComment unless hasComment, return false.
NotAFile(s) ==
    LET t == [s EXCEPT !.log = Append(@, LogEntry("warn", -1, ".steward.yml is not a file"))]
    IN  IF ~s.hasComment
        THEN Step(ReturnFalse([t EXCEPT !.calls = Append(@,
                      Call("issues.createComment", t.pull_number, NotAFileBody))]),
                  NotAFileBody)
        ELSE Step(ReturnFalse(t), "")

\* Leaving the try / catch without a return: on to the check suites.
ConfigContinue(s) == [s EXCEPT !.pc = "checks.listSuitesForRef"]

\* The catch block.
CatchConfigError(s, error) ==
    IF error = "HttpError 404"
    THEN Step(ConfigContinue([s EXCEPT !.stewardYmlType = "absent", !.log = Append(@,
                  LogEntry("info", -1, ".steward.yml not found. continuing..."))]), "")
    ELSE IF error = "ZodError"
    THEN NotAFile(s)
    ELSE Step(ReturnFalse([s EXCEPT !.log = Append(@, LogEntry("error", -1, error))]), "")

\* GloballyDisabled with === undefined for !== undefined.
GloballyDisabledIfUndefined(enable) == enable = "undefined" /\ Not(enable)

\* stewardYml.enable !== undefined && !stewardYml.enable
GloballyDisabled(enable) == enable # "undefined" /\ Not(enable)

\* thisEcosystem && thisEcosystem.enable !== undefined && !thisEcosystem.enable
EcosystemDisabled(entry, entryEnable) ==
    /\ entry \in {"scalar", "map"}
    /\ entry = "map"
    /\ entryEnable # "undefined"
    /\ Not(entryEnable)

\* Disabled with the comment of the not-a-file branch posted as well.
DisabledWithComment(s, msg) ==
    LET t == [s EXCEPT !.log = Append(@, LogEntry("info", -1, msg))]
    IN  Step(ReturnFalse([t EXCEPT !.calls = Append(@,
                     Call("issues.createComment", t.pull_number, msg))]), msg)

\* log.info and return false: the two disabled branches.
Disabled(s, msg) ==
    Step(ReturnFalse([s EXCEPT !.log = Append(@, LogEntry("info", -1, msg))]), "")

\* The try block from the parsed yaml on.
CheckStewardYml(s, doc) ==
    LET enable == IF doc.kind = "map" THEN doc.enable ELSE "undefined"
        name == thisEcosystemString[s.pr.head.ref]
        t == [s EXCEPT !.stewardYmlType =
                         IF IsStewardYml(doc) THEN "StewardYml" ELSE "other"]
    IN  IF doc.kind = "null"
        THEN CatchConfigError(t, "TypeError")
        ELSE IF GloballyDisabled(enable)
        THEN Disabled(t, "Steward is disabled.")
        ELSE IF name = ""
        THEN CatchConfigError(t, "Error: Something went wrong")
        ELSE IF EcosystemDisabled(EcosystemEntry(doc, name), doc.entryEnable)
        THEN Disabled(t, "Steward for this ecosystem is disabled.")
        ELSE Step(ConfigContinue(t), "")

\* The try block from getContent's answer on.
ReadStewardYml(s, data) ==
    IF data.kind = "rejected"
    THEN CatchConfigError(s, IF data.status = 404 THEN "HttpError 404"
                             ELSE IF data.status = 0 THEN "RequestError"
                             ELSE "HttpError 500")
    ELSE IF ~RepoContentSchema(data)
    THEN CatchConfigError(s, "ZodError")
    ELSE IF data.type # "file"
    THEN NotAFile(s)
    ELSE IF ~data.content.base64
    THEN CatchConfigError(s, "ZodError")
    ELSE IF data.content.doc.kind = "error"
    THEN CatchConfigError(s, "YAMLParseError")
    ELSE CheckStewardYml(s, data.content.doc)

GetContent(h, answers) ==
    /\ hs[h].pc = "repos.getContent"
    /\ \E data \in answers :
         LET s == [hs[h] EXCEPT !.stewardYmlData = data,
                                !.calls = Append(@, Call("repos.getContent", 0,
                                                         hs[h].pr.head.ref))]
             step == ReadStewardYml(s, data)
         IN  /\ hs' = [hs EXCEPT ![h] = step.s]
             /\ pending' = IF step.body = "" THEN pending
                           ELSE Append(pending, [issue_number |-> s.pull_number,
                                                 body |-> step.body])
    /\ UNCHANGED <<merged, reviews, comments>>

(***************************************************************************)
(* A createComment request reaches GitHub, or its promise is rejected;     *)
(* nothing in the handler waits for either.                                *)
(***************************************************************************)
Remove(seq, i) == SubSeq(seq, 1, i - 1) \o SubSeq(seq, i + 1, Len(seq))

CommentCreated ==
    /\ \E i \in 1..Len(pending) :
         /\ comments' = [comments EXCEPT ![pending[i].issue_number] =
                           Append(@, [user |-> [id |-> stewardUserId],
                                      body |-> pending[i].body])]
         /\ pending' = Remove(pending, i)
    /\ UNCHANGED <<hs, merged, reviews>>

CommentRejected ==
    /\ \E i \in 1..Len(pending) : pending' = Remove(pending, i)
    /\ UNCHANGED <<hs, merged, reviews, comments>>

(***************************************************************************)
(* checks.listSuitesForRef: no suites, no valid suites, a suite that has   *)
(* not completed.                                                          *)
(***************************************************************************)
\* IsValidSuite with >= for >.
IsValidSuiteOrEmpty(cs) == cs.latest_check_runs_count >= 0

\* cs => cs.latest_check_runs_count > 0
IsValidSuite(cs) == cs.latest_check_runs_count > 0

\* NotCompleted that knows only of suites in progress.
InProgress(cs) == cs.status = "in_progress"

\* cs => cs.status !== 'completed'
NotCompleted(cs) == cs.status # "completed"

\* validSuites.some(cs => cs.status !== 'completed')
SomeNotCompleted(validSuites) ==
    \E i \in 1..Len(validSuites) : NotCompleted(validSuites[i])

ListSuitesReturns(s, headSuitesData) ==
    LET validSuites == SelectSeq(headSuitesData.check_suites, IsValidSuite)
        t == [s EXCEPT !.headSuitesData = headSuitesData,
                       !.validSuites = validSuites]
    IN  IF headSuitesData.total_count = 0
        THEN ReturnTrue([t EXCEPT !.validSuites = <<>>])
        ELSE IF Len(validSuites) = 0
        THEN ReturnTrue(t)
        ELSE IF SomeNotCompleted(validSuites)
        THEN ReturnFalse([t EXCEPT !.log = Append(@,
                 LogEntry("warn", t.pull_number,
                          "Some check suites are not yet completed, skipping auto-merge."))])
        ELSE [t EXCEPT !.pc = "repos.getBranchRules"]

ListSuites(h, listings) ==
    /\ hs[h].pc = "checks.listSuitesForRef"
    /\ LET s == [hs[h] EXCEPT !.stewardYmlData = NoContent,
                              !.calls = Append(@, Call("checks.listSuitesForRef", 0,
                                                       hs[h].pr.head.ref))]
       IN  \/ hs' = [hs EXCEPT ![h] = Throw(s, "HttpError")]
           \/ \E headSuitesData \in listings :
                hs' = [hs EXCEPT ![h] = ListSuitesReturns(s, headSuitesData)]
    /\ UNCHANGED github

(***************************************************************************)
(* repos.getBranchRules: the required checks.  With required checks, one   *)
(* check-run request per valid suite is issued, all before any is awaited. *)
(***************************************************************************)
\* r => r.type === 'required_status_checks'
IsRequiredStatusChecks(r) == r.type = "required_status_checks"

\* The filter and the flatMap over the branch's rules.
RequiredChecks(rules) ==
    LET kept == SelectSeq(rules, IsRequiredStatusChecks)
    IN  Flat([i \in 1..Len(kept) |->
                IF ~kept[i].hasParameters THEN <<>> ELSE kept[i].contexts])

\* GetBranchRulesReturns without the return for no required check.
GetBranchRulesReturnsThenRequests(s, rules) ==
    LET t == [s EXCEPT !.requiredChecks = RequiredChecks(rules)]
    IN  [t EXCEPT !.pc = "Promise.all",
                  !.checkRuns = [i \in 1..Len(t.validSuites) |-> Pending],
                  !.calls = @ \o [i \in 1..Len(t.validSuites) |->
                                    Call("request", 0, t.validSuites[i].check_runs_url)]]

\* The required checks of the answer; none is a pass, else the requests.
GetBranchRulesReturns(s, rules) ==
    LET t == [s EXCEPT !.requiredChecks = RequiredChecks(rules)]
    IN  IF Len(t.requiredChecks) = 0
        THEN ReturnTrue(t)
        ELSE [t EXCEPT !.pc = "Promise.all",
                       !.checkRuns = [i \in 1..Len(t.validSuites) |-> Pending],
                       !.calls = @ \o [i \in 1..Len(t.validSuites) |->
                                         Call("request", 0, t.validSuites[i].check_runs_url)]]

GetBranchRules(h, ruleLists) ==
    /\ hs[h].pc = "repos.getBranchRules"
    /\ LET s == [hs[h] EXCEPT !.calls = Append(@, Call("repos.getBranchRules", 0,
                                                       hs[h].pr.base.ref))]
       IN  \/ hs' = [hs EXCEPT ![h] = Throw(s, "HttpError")]
           \/ \E rules \in ruleLists :
                hs' = [hs EXCEPT ![h] = GetBranchRulesReturns(s, rules)]
    /\ UNCHANGED github

(***************************************************************************)
(* One check-run request is answered.  Promise.all rejects with the first  *)
(* rejection; it resolves, and the required checks are matched, when the   *)
(* last request is fulfilled.                                              *)
(***************************************************************************)
\* HasPassed as "has not failed".
HasNotFailed(cr) == cr.conclusion # "failure"

\* cr => cr.conclusion === 'success' || ... 'skipped' || ... 'neutral'
HasPassed(cr) ==
    \/ cr.conclusion = "success"
    \/ cr.conclusion = "skipped"
    \/ cr.conclusion = "neutral"

\* What the callback of validSuites.map resolves to.
PassedNames(check_runs) ==
    LET kept == SelectSeq(check_runs, HasPassed)
    IN  [i \in 1..Len(kept) |-> kept[i].name]

\* requiredChecks.every(rc => passedChecksSet.has(rc))
AllRequiredChecksPassed(requiredChecks, passedChecks) ==
    \A i \in 1..Len(requiredChecks) : requiredChecks[i] \in Elements(passedChecks)

AllFulfilled(checkRuns) ==
    \A i \in 1..Len(checkRuns) : checkRuns[i].state = "fulfilled"

\* MatchRequiredChecks on the passed checks of the first suite alone.
MatchFirstSuite(s) ==
    LET passedChecks == PassedNames(s.checkRuns[1].check_runs)
    IN  IF ~AllRequiredChecksPassed(s.requiredChecks, passedChecks)
        THEN ReturnFalse([s EXCEPT !.log = Append(@,
                 LogEntry("warn", s.pull_number,
                          "Not all required checks have passed, skipping auto-merge."))])
        ELSE ReturnTrue(s)

\* passedChecks of all suites, the Set of them, and every().
MatchRequiredChecks(s) ==
    LET passedChecks ==
            Flat([i \in 1..Len(s.checkRuns) |-> PassedNames(s.checkRuns[i].check_runs)])
    IN  IF ~AllRequiredChecksPassed(s.requiredChecks, passedChecks)
        THEN ReturnFalse([s EXCEPT !.log = Append(@,
                 LogEntry("warn", s.pull_number,
                          "Not all required checks have passed, skipping auto-merge."))])
        ELSE ReturnTrue(s)

\* CheckRunsFulfilled with the match made on every fulfilment.
CheckRunsFulfilledEach(s, i, check_runs) ==
    MatchRequiredChecks([s EXCEPT !.checkRuns[i] = Fulfilled(check_runs)])

\* One request of Promise.all is fulfilled; the last one resolves it.
CheckRunsFulfilled(s, i, check_runs) ==
    LET t == [s EXCEPT !.checkRuns[i] = Fulfilled(check_runs)]
    IN  IF AllFulfilled(t.checkRuns) THEN MatchRequiredChecks(t) ELSE t

CheckRunsReturn(h, runLists) ==
    /\ hs[h].pc = "Promise.all"
    /\ \E i \in 1..Len(hs[h].checkRuns) :
         /\ hs[h].checkRuns[i].state = "pending"
         /\ \/ hs' = [hs EXCEPT ![h] = Throw(hs[h], "HttpError")]
            \/ \E check_runs \in runLists :
                 hs' = [hs EXCEPT ![h] = CheckRunsFulfilled(hs[h], i, check_runs)]
    /\ UNCHANGED github

(***************************************************************************)
(* The approval, then the merge.                                           *)
(***************************************************************************)
\* CreateReviewRejected with the rejection caught and ignored.
CreateReviewRejectedIgnored(s) == [s EXCEPT !.pc = "pulls.merge"]

\* CreateReviewRejected with the rejection caught and logged.
CreateReviewRejectedLogged(s) ==
    [s EXCEPT !.pc = "done", !.outcome = "returned",
              !.log = Append(@, LogEntry("console.error", -1, "HttpError"))]

\* The awaited createReview is rejected: nothing catches it.
CreateReviewRejected(s) == Throw(s, "HttpError")

CreateReview(h) ==
    /\ hs[h].pc = "pulls.createReview"
    /\ LET n == hs[h].pull_number
           s == [hs[h] EXCEPT !.calls = Append(@, Call("pulls.createReview", n, "APPROVE"))]
       IN  \/ /\ hs' = [hs EXCEPT ![h] = CreateReviewRejected(s)]
              /\ UNCHANGED reviews
           \/ /\ hs' = [hs EXCEPT ![h] = [s EXCEPT !.pc = "pulls.merge"]]
              /\ reviews' = [reviews EXCEPT ![n] =
                               Append(@, [user |-> [id |-> stewardUserId]])]
    /\ UNCHANGED <<merged, comments, pending>>

\* MergeReturns without the try / catch around the merge.
MergeReturnsUncaught(s, fulfilled) ==
    IF fulfilled
    THEN [s EXCEPT !.pc = "done", !.outcome = "returned",
                   !.log = Append(@, LogEntry("info", s.pull_number,
                                              "Successfully merged pull request"))]
    ELSE Throw(s, "HttpError")

\* MergeReturns with the merge tried again after a rejection.
MergeReturnsRetried(s, fulfilled) ==
    IF fulfilled
    THEN [s EXCEPT !.pc = "done", !.outcome = "returned",
                   !.log = Append(@, LogEntry("info", s.pull_number,
                                              "Successfully merged pull request"))]
    ELSE [s EXCEPT !.pc = "pulls.merge"]

\* The handler's end after the merge call, fulfilled or rejected.
MergeReturns(s, fulfilled) ==
    [s EXCEPT !.pc = "done", !.outcome = "returned",
              !.log = Append(@, IF fulfilled
                                THEN LogEntry("info", s.pull_number,
                                              "Successfully merged pull request")
                                ELSE LogEntry("console.error", -1, "HttpError"))]

Merge(h) ==
    /\ hs[h].pc = "pulls.merge"
    /\ LET n == hs[h].pull_number
           s == [hs[h] EXCEPT !.calls = Append(@, Call("pulls.merge", n, hs[h].merge_method))]
       IN  \/ /\ hs' = [hs EXCEPT ![h] = MergeReturns(s, FALSE)]
              /\ UNCHANGED merged
           \/ /\ ~merged[n]
              /\ hs' = [hs EXCEPT ![h] = MergeReturns(s, TRUE)]
              /\ merged' = [merged EXCEPT ![n] = TRUE]
    /\ UNCHANGED <<reviews, comments, pending>>

(***************************************************************************)
(* Deliveries evaluated one after another, each to its end, by handler 1.  *)
(* Guards 1 to 6 are given every answer of their calls, the check stage a  *)
(* few.                                                                    *)
(***************************************************************************)
Evaluate(h) ==
    \/ ReposGet(h, RepoMetadata)
    \/ PopPullRequest(h)
    \/ ListReviews(h)
    \/ PullsGet(h)
    \/ ListComments(h)
    \/ GetContent(h, ContentAnswers)
    \/ ListSuites(h, FewSuiteListings)
    \/ GetBranchRules(h, FewBranchRuleLists)
    \/ CheckRunsReturn(h, FewCheckRunLists)
    \/ CreateReview(h)
    \/ Merge(h)

Next ==
    \/ Receive(1, Payloads)
    \/ Evaluate(1)
    \/ CommentCreated
    \/ CommentRejected

Spec == Init /\ [][Next]_vars

(***************************************************************************)
(* The check stage with every listing, rule list and check-run answer:     *)
(* deliveries for pull request 1, from the repository itself, with no      *)
(* .steward.yml on its branch, in a repository that allows merge commits.  *)
(***************************************************************************)
EvaluateChecks(h) ==
    \/ ReposGet(h, { [allow_merge_commit |-> TRUE, allow_squash_merge |-> FALSE,
                      allow_rebase_merge |-> FALSE] })
    \/ PopPullRequest(h)
    \/ ListReviews(h)
    \/ PullsGet(h)
    \/ ListComments(h)
    \/ GetContent(h, { Rejected(404) })
    \/ ListSuites(h, SuiteListings)
    \/ GetBranchRules(h, BranchRuleLists)
    \/ CheckRunsReturn(h, CheckRunLists)
    \/ CreateReview(h)
    \/ Merge(h)

NextChecks ==
    \/ Receive(1, { << PullRequest(1, "dependabot/npm_and_yarn/lodash-4.17.21", 1) >> })
    \/ EvaluateChecks(1)

SpecChecks == Init /\ [][NextChecks]_vars

(***************************************************************************)
(* Every external call returns or fails: a step of the evaluation that is  *)
(* enabled, which is the answer to the call it awaits, is eventually       *)
(* taken.                                                                  *)
(***************************************************************************)
FairSpec == Spec /\ WF_vars(Evaluate(1))

(***************************************************************************)
(* Deliveries for pull request 1 handled by two invocations of the         *)
(* handler, with a .steward.yml that is absent or a directory, and few     *)
(* answers of the check stage.  In turn: a delivery is accepted when no    *)
(* evaluation is running, so each handler keeps what its last evaluation   *)
(* did while the other evaluates.  Concurrently: the two evaluations'      *)
(* awaits are answered in any order.                                       *)
(***************************************************************************)
SamePullRequest == { << PullRequest(1, "dependabot/npm_and_yarn/lodash-4.17.21", 1) >> }

EvaluateSame(h) ==
    \/ ReposGet(h, { [allow_merge_commit |-> TRUE, allow_squash_merge |-> FALSE,
                      allow_rebase_merge |-> FALSE] })
    \/ PopPullRequest(h)
    \/ ListReviews(h)
    \/ PullsGet(h)
    \/ ListComments(h)
    \/ GetContent(h, { Rejected(404),
                       ContentAnswer("array", 200, "", Content(FALSE, FALSE, EmptyDocument), "") })
    \/ ListSuites(h, { NoSuites, SuiteListing(<< CheckSuite("completed", 1) >>) })
    \/ GetBranchRules(h, FewBranchRuleLists)
    \/ CheckRunsReturn(h, FewCheckRunLists)
    \/ CreateReview(h)
    \/ Merge(h)

ReceiveInTurn(h) ==
    /\ \A g \in Procs : ~Running(g)
    /\ Receive(h, SamePullRequest)

NextInTurn ==
    \/ \E h \in Procs : ReceiveInTurn(h)
    \/ \E h \in Procs : EvaluateSame(h)
    \/ CommentCreated
    \/ CommentRejected

SpecInTurn == Init /\ [][NextInTurn]_vars

NextConcurrent ==
    \/ \E h \in Procs : Receive(h, SamePullRequest)
    \/ \E h \in Procs : EvaluateSame(h)
    \/ CommentCreated
    \/ CommentRejected

SpecConcurrent == Init /\ [][NextConcurrent]_vars

(***************************************************************************)
(* Properties.  What an evaluation did is read from its calls and its log, *)
(* what it was given from the answers it keeps.                            *)
(***************************************************************************)
Called(s, op) == \E i \in 1..Len(s.calls) : s.calls[i].op = op

Mutations == {"issues.createComment", "pulls.createReview", "pulls.merge"}

NoMutation(s) == \A i \in 1..Len(s.calls) : s.calls[i].op \notin Mutations

NoReviewNoMerge(s) == ~Called(s, "pulls.createReview") /\ ~Called(s, "pulls.merge")

LastMsg(s) == IF s.log = <<>> THEN "" ELSE s.log[Len(s.log)].msg

\* The check-status aggregation yields Pass: no suite, no suite with runs,
\* or every suite with runs completed and every required check among the
\* runs that concluded success, skipped or neutral.
ChecksPass(s) ==
    LET suites == s.headSuitesData.check_suites
        valid == { i \in 1..Len(suites) : suites[i].latest_check_runs_count > 0 }
        Passed(name) ==
            \E i \in 1..Len(s.checkRuns) : \E j \in 1..Len(s.checkRuns[i].check_runs) :
                /\ s.checkRuns[i].check_runs[j].name = name
                /\ s.checkRuns[i].check_runs[j].conclusion \in {"success", "skipped", "neutral"}
    IN  /\ Called(s, "checks.listSuitesForRef")
        /\ \/ valid = {}
           \/ /\ \A i \in valid : suites[i].status = "completed"
              /\ Called(s, "repos.getBranchRules")
              /\ \/ s.requiredChecks = <<>>
                 \/ /\ Len(s.checkRuns) = Cardinality(valid)
                    /\ \A i \in 1..Len(s.checkRuns) : s.checkRuns[i].state = "fulfilled"
                    /\ \A k \in 1..Len(s.requiredChecks) : Passed(s.requiredChecks[k])

\* Guards 1 to 5 and 7 held, on the answers the evaluation was given.
OtherGuardsHeld(s) ==
    /\ s.pr # NoPullRequest
    /\ s.pr.head.repo.id = s.pr.base.repo.id
    /\ Called(s, "pulls.listReviews")
    /\ \A i \in 1..Len(s.prReviewsData) : s.prReviewsData[i].user.id # stewardUserId
    /\ s.prData # NoPrData
    /\ ~s.prData.merged
    /\ s.prData.user.id = dependabotUserId
    /\ ChecksPass(s)

\* The configuration is absent, or it is of the documented shape.
ConfigResolved(s) == s.stewardYmlType \in {"absent", "StewardYml"}

\* A resolved configuration the evaluation still holds enables auto-merge
\* for the ecosystem of the branch.
ConfigEnabled(s) ==
    \/ s.stewardYmlType = "absent"
    \/ /\ s.stewardYmlType = "StewardYml"
       /\ thisEcosystemString[s.pr.head.ref] # ""
       /\ \/ s.stewardYmlData = NoContent
          \/ /\ s.stewardYmlData.content.doc.enable # "false"
             /\ ~ /\ s.stewardYmlData.content.doc.key = thisEcosystemString[s.pr.head.ref]
                  /\ s.stewardYmlData.content.doc.entryEnable = "false"

\* C1: an approving review is submitted, and a merge requested, only if all
\* seven guards held in the evaluation (a pull request attached, not a fork,
\* not reviewed by the steward, not merged, authored by Dependabot, the
\* configuration absent or resolved and enabled, the check status Pass);
\* and an evaluation that ended with all seven held and a merge method
\* submitted the approving review.
C1_SevenGuards ==
    \A h \in Procs :
        LET s == hs[h]
        IN  /\ Called(s, "pulls.createReview") \/ Called(s, "pulls.merge")
                => OtherGuardsHeld(s) /\ ConfigResolved(s)
            /\ /\ s.pc = "done"
               /\ s.outcome = "returned"
               /\ s.merge_method # ""
               /\ OtherGuardsHeld(s)
               /\ ConfigEnabled(s)
               => Called(s, "pulls.createReview")

\* C2: a merge call directly follows a createReview call with event APPROVE
\* for the same pull request number, which returned successfully (the
\* steward's review is on the pull request), and names the selected merge
\* method; when all guards passed the approval is the next call.
C2_ApproveThenMerge ==
    \A h \in Procs :
        LET s == hs[h]
        IN  /\ \A i \in 1..Len(s.calls) :
                  s.calls[i].op = "pulls.merge" =>
                      /\ i > 1
                      /\ s.calls[i - 1] = Call("pulls.createReview", s.pr.number, "APPROVE")
                      /\ s.calls[i].pull_number = s.pr.number
                      /\ s.calls[i].arg = s.merge_method
                      /\ s.merge_method \in {"merge", "squash", "rebase"}
                      /\ \E r \in 1..Len(reviews[s.pr.number]) :
                             reviews[s.pr.number][r].user.id = stewardUserId
            /\ s.processMerge = "true" /\ s.pull_number # 0 =>
                  \/ s.pc = "pulls.createReview" /\ NoReviewNoMerge(s)
                  \/ Called(s, "pulls.createReview")

C2_Witness ==
    \E h \in Procs :
        /\ hs[h].pc = "done"
        /\ Called(hs[h], "pulls.merge")
        /\ LastMsg(hs[h]) = "Successfully merged pull request"

\* C3: the merge method passed to the merge call is the first true flag in
\* the order merge, squash, rebase.
C3_FirstTrueFlag ==
    \A h \in Procs :
        LET s == hs[h]
            flags == <<s.repoMetadata.allow_merge_commit,
                       s.repoMetadata.allow_squash_merge,
                       s.repoMetadata.allow_rebase_merge>>
            methods == <<"merge", "squash", "rebase">>
        IN  \A i \in 1..Len(s.calls) :
                s.calls[i].op = "pulls.merge" =>
                    \E k \in 1..3 :
                        /\ flags[k]
                        /\ \A j \in 1..(k - 1) : ~flags[j]
                        /\ s.calls[i].arg = methods[k]

C3_Witness ==
    \E h \in Procs :
        /\ Called(hs[h], "pulls.merge")
        /\ hs[h].merge_method = "squash"
        /\ hs[h].repoMetadata.allow_rebase_merge

\* C4: with none of the three flags true the evaluation ends with a
\* propagated error, after the repository read and before any other call:
\* no comment, no review, no merge.
C4_NoMergeMethod ==
    \A h \in Procs :
        LET s == hs[h]
        IN  /\ s.pc \notin {"idle", "repos.get"}
            /\ ~s.repoMetadata.allow_merge_commit
            /\ ~s.repoMetadata.allow_squash_merge
            /\ ~s.repoMetadata.allow_rebase_merge
            => /\ s.pc = "done"
               /\ s.outcome = "threw"
               /\ NoMutation(s)
               /\ Len(s.calls) = 1

C4_Witness ==
    \E h \in Procs :
        /\ hs[h].error = "No allowed merge method found for the repository."
        /\ hs[h].payload # <<>>

\* C5: a delivery whose check suite has no pull request leads to no review
\* call and no merge call.
C5_NoPullRequest ==
    \A h \in Procs :
        LET s == hs[h]
        IN  s.pr = NoPullRequest => NoReviewNoMerge(s)

C5_Witness ==
    \E h \in Procs :
        /\ hs[h].pc = "done"
        /\ hs[h].pr = NoPullRequest
        /\ hs[h].processMerge = "false"
        /\ LastMsg(hs[h]) = "No pull request found in the check suite."

\* C6: a pull request whose head repository is not its base repository
\* leads to no review call and no merge call.
C6_Fork ==
    \A h \in Procs :
        LET s == hs[h]
        IN  s.pr # NoPullRequest /\ s.pr.head.repo.id # s.pr.base.repo.id
            => NoReviewNoMerge(s)

C6_Witness ==
    \E h \in Procs :
        /\ hs[h].pc = "done"
        /\ hs[h].pr # NoPullRequest
        /\ hs[h].pr.head.repo.id # hs[h].pr.base.repo.id
        /\ hs[h].processMerge = "false"

\* C7: an evaluation that found the pull request merged, or found a review
\* by the steward account, makes no mutating call.
C7_MergedOrReviewed ==
    \A h \in Procs :
        LET s == hs[h]
        IN  \/ s.prData.merged
            \/ \E i \in 1..Len(s.prReviewsData) : s.prReviewsData[i].user.id = stewardUserId
            => NoMutation(s)

C7_Witness ==
    \E h \in Procs :
        /\ hs[h].pc = "done"
        /\ hs[h].processMerge = "false"
        /\ \E i \in 1..Len(hs[h].prReviewsData) :
               hs[h].prReviewsData[i].user.id = stewardUserId

\* C8: an evaluation that found the author of the pull request not to be
\* the Dependabot account makes no mutating call.
C8_NotFromBot ==
    \A h \in Procs :
        LET s == hs[h]
        IN  s.prData # NoPrData /\ s.prData.user.id # dependabotUserId
            => NoMutation(s)

C8_Witness ==
    \E h \in Procs :
        /\ hs[h].pc = "done"
        /\ hs[h].processMerge = "false"
        /\ hs[h].prData # NoPrData
        /\ ~hs[h].prData.merged
        /\ hs[h].prData.user.id = humanUserId

\* The place of a call in the order of the guards.
CallOrder(op) ==
    CASE op = "repos.get" -> 1
      [] op = "pulls.listReviews" -> 2
      [] op = "pulls.get" -> 3
      [] op = "issues.listComments" -> 4
      [] op = "repos.getContent" -> 5
      [] op = "issues.createComment" -> 6
      [] op = "checks.listSuitesForRef" -> 7
      [] op = "repos.getBranchRules" -> 8
      [] op = "request" -> 9
      [] op = "pulls.createReview" -> 10
      [] op = "pulls.merge" -> 11

\* The reason of the first of guards 1 to 5 that fails on the answers the
\* evaluation was given ("" when none does).
FirstFailingGuard(s) ==
    IF s.pr = NoPullRequest THEN "No pull request found in the check suite."
    ELSE IF s.pr.head.repo.id # s.pr.base.repo.id
    THEN "is from a fork, skipping auto-merge."
    ELSE IF \E i \in 1..Len(s.prReviewsData) : s.prReviewsData[i].user.id = stewardUserId
    THEN "is already reviewed by steward, skipping auto-merge."
    ELSE IF s.prData # NoPrData /\ s.prData.merged
    THEN "is already merged, skipping auto-merge."
    ELSE IF s.prData # NoPrData /\ s.prData.user.id # dependabotUserId
    THEN "is not from Dependabot, skipping auto-merge."
    ELSE ""

\* The last call an evaluation vetoed for this reason may have made.
LastCallOfVeto(msg) ==
    CASE msg \in {"No pull request found in the check suite.",
                  "is from a fork, skipping auto-merge."} -> {1}
      [] msg = "is already reviewed by steward, skipping auto-merge." -> {2}
      [] msg \in {"is already merged, skipping auto-merge.",
                  "is not from Dependabot, skipping auto-merge."} -> {3}
      [] msg = "Some check suites are not yet completed, skipping auto-merge." -> {7}
      [] msg = "Not all required checks have passed, skipping auto-merge." -> {9}
      [] OTHER -> {5, 6}

\* C9: the guards run in the order no pull request, fork, reviewed, merged,
\* author, configuration, check status: the calls of an evaluation follow
\* that order without a gap, the reason of a veto is that of the first
\* failing guard, and a veto ends the evaluation with no call of a later
\* guard.
C9_GuardOrder ==
    \A h \in Procs :
        LET s == hs[h]
            n == Len(s.calls)
        IN  /\ \A i \in 2..n :
                  <<CallOrder(s.calls[i - 1].op), CallOrder(s.calls[i].op)>> \in
                      { <<1, 2>>, <<2, 3>>, <<3, 4>>, <<4, 5>>, <<5, 6>>, <<5, 7>>,
                        <<7, 8>>, <<8, 9>>, <<9, 9>>, <<7, 10>>, <<8, 10>>,
                        <<9, 10>>, <<10, 11>> }
            /\ n > 0 => s.calls[1].op = "repos.get"
            /\ s.processMerge = "false" =>
                  /\ s.pc = "done"
                  /\ CallOrder(s.calls[n].op) \in LastCallOfVeto(LastMsg(s))
            /\ /\ s.pc \notin {"idle", "repos.get", "processMerge"}
               /\ s.outcome # "threw"
               /\ FirstFailingGuard(s) # ""
               => s.processMerge = "false" /\ LastMsg(s) = FirstFailingGuard(s)

C9_Witness ==
    \E h \in Procs :
        /\ hs[h].pc = "done"
        /\ LastMsg(hs[h]) = "is already reviewed by steward, skipping auto-merge."
        /\ merged[hs[h].pull_number]
        /\ ~Called(hs[h], "pulls.get")

\* C10: a .steward.yml with top-level enable: false ends the evaluation
\* with a veto and no review or merge call, whatever keys it has for the
\* ecosystem of the branch.
C10_GloballyDisabled ==
    \A h \in Procs :
        LET s == hs[h]
        IN  /\ s.stewardYmlData.kind = "object"
            /\ s.stewardYmlData.type = "file"
            /\ s.stewardYmlData.encoding = "base64"
            /\ s.stewardYmlData.content.present
            /\ s.stewardYmlData.content.base64
            /\ s.stewardYmlData.content.doc.kind = "map"
            /\ s.stewardYmlData.content.doc.enable = "false"
            => /\ s.pc = "done"
               /\ s.processMerge = "false"
               /\ NoReviewNoMerge(s)
               /\ LastMsg(s) = "Steward is disabled."

C10_Witness ==
    \E h \in Procs :
        /\ hs[h].pc = "done"
        /\ LastMsg(hs[h]) = "Steward is disabled."
        /\ hs[h].stewardYmlData.content.doc.enable = "false"
        /\ hs[h].stewardYmlData.content.doc.key = thisEcosystemString[hs[h].pr.head.ref]
        /\ hs[h].stewardYmlData.content.doc.entry = "map"
        /\ hs[h].stewardYmlData.content.doc.entryEnable = "true"

\* The evaluation holds a .steward.yml that is a file of the documented
\* shape.
HoldsStewardYml(s) ==
    /\ s.stewardYmlData.kind = "object"
    /\ s.stewardYmlData.type = "file"
    /\ s.stewardYmlData.encoding = "base64"
    /\ s.stewardYmlData.content.present
    /\ s.stewardYmlData.content.base64
    /\ s.stewardYmlType = "StewardYml"

\* The catalog ecosystems Dependabot names the branch for: those e with
\* the branch dependabot/e/...
NamedFor(ref) ==
    { e \in Elements(ecosystems) :
        LET prefix == "dependabot/" \o e \o "/"
        IN  Len(ref) >= Len(prefix) /\ SubSeq(ref, 1, Len(prefix)) = prefix }

\* C11: with a branch that Dependabot names for ecosystem e, a .steward.yml
\* with e: {enable: false} vetoes the merge, and a .steward.yml in which
\* only another catalog ecosystem has enable: false does not.
C11_EcosystemSwitch ==
    \A h \in Procs :
        LET s == hs[h]
            doc == s.stewardYmlData.content.doc
        IN  /\ HoldsStewardYml(s)
            /\ doc.enable \in {"undefined", "true"}
            /\ doc.key \in Elements(ecosystems)
            /\ doc.entry = "map"
            /\ doc.entryEnable = "false"
            /\ NamedFor(s.pr.head.ref) # {}
            => IF doc.key \in NamedFor(s.pr.head.ref)
               THEN s.pc = "done" /\ s.processMerge = "false" /\ NoReviewNoMerge(s)
               ELSE s.pc = "checks.listSuitesForRef"

\* The documents of a .steward.yml that sets no keys: the empty mapping
\* and the empty document.
NoKeys ==
    { YamlDocument("map", "undefined", "", "undefined", "undefined"),
      EmptyDocument }

\* C12: an evaluation whose config fetch was answered 404 posts no comment
\* and passes the configuration guard, as it does with a file that sets
\* no keys in its place; and when it has ended, the pull request was
\* approved iff the check status is Pass.
C12_AbsentAsNoKeys ==
    \A h \in Procs :
        LET s == hs[h]
        IN  /\ s.stewardYmlData = Rejected(404) =>
                /\ s.pc = "checks.listSuitesForRef"
                /\ ~Called(s, "issues.createComment")
                /\ \A doc \in NoKeys :
                      LET with == ReadStewardYml(s, File(doc))
                      IN  with.s.pc = s.pc /\ with.body = ""
            /\ s.stewardYmlType = "absent" /\ s.pc = "done" /\ s.outcome = "returned" =>
                (Called(s, "pulls.createReview") <=> ChecksPass(s))

\* getContent answered with something that is not a regular file: a
\* directory listing, or an object of another type.
NotRegularFile(data) ==
    \/ data.kind = "array"
    \/ data.kind = "object" /\ data.type \in {"dir", "symlink", "submodule"}

\* The advisory comments for pull request n, posted or on their way.
AdvisoryComments(n) ==
    Len(comments[n])
        + Cardinality({ i \in 1..Len(pending) : pending[i].issue_number = n })

\* C13: over the deliveries evaluated one after another, a pull request
\* gets one advisory comment in total: an evaluation that finds
\* .steward.yml not to be a regular file ends with a veto and no review or
\* merge call, it asks for the comment when it saw no steward comment, and
\* no pull request ever has more than one.
C13_OneAdvisoryComment ==
    /\ \A n \in PRNumbers : AdvisoryComments(n) <= 1
    /\ \A h \in Procs :
          LET s == hs[h]
          IN  NotRegularFile(s.stewardYmlData) =>
                  /\ s.pc = "done"
                  /\ s.processMerge = "false"
                  /\ NoReviewNoMerge(s)
                  /\ s.hasComment \/ Called(s, "issues.createComment")

\* The body of the comment for a schema error (.steward.yml in backquotes
\* in the original).
SchemaErrorBody == "Configuration invalid. Please check .steward.yml."

\* The document violates the schema: its top-level value is not a mapping,
\* or an enable field, global or of an ecosystem, is not a boolean.
ViolatesSchema(doc) ==
    \/ doc.kind \in {"scalar", "seq"}
    \/ /\ doc.kind = "map"
       /\ \/ doc.enable \notin {"undefined", "true", "false"}
          \/ doc.entry = "map" /\ doc.entryEnable \notin {"undefined", "true", "false"}

\* C14: an evaluation that reads a regular file whose content violates the
\* schema ends normally with a veto and no review or merge call, and asks
\* for the schema-error comment unless a steward comment exists.
C14_SchemaError ==
    \A h \in Procs :
        LET s == hs[h]
        IN  /\ s.stewardYmlData.kind = "object"
            /\ s.stewardYmlData.type = "file"
            /\ s.stewardYmlData.encoding = "base64"
            /\ s.stewardYmlData.content.present
            /\ s.stewardYmlData.content.base64
            /\ ViolatesSchema(s.stewardYmlData.content.doc)
            => /\ s.pc = "done"
               /\ s.outcome = "returned"
               /\ s.processMerge = "false"
               /\ NoReviewNoMerge(s)
               /\ \/ s.hasComment
                  \/ \E i \in 1..Len(s.calls) :
                        s.calls[i] = Call("issues.createComment", s.pull_number,
                                          SchemaErrorBody)

\* checks.listSuitesForRef was answered in this evaluation.
SuitesAnswered(s) ==
    /\ Called(s, "checks.listSuitesForRef")
    /\ s.outcome = "threw" => s.calls[Len(s.calls)].op # "checks.listSuitesForRef"

\* The places in the listing of the suites with check runs.
ValidSuites(s) ==
    { i \in 1..Len(s.headSuitesData.check_suites) :
        s.headSuitesData.check_suites[i].latest_check_runs_count > 0 }

NoRulesNoRuns(s) == ~Called(s, "repos.getBranchRules") /\ ~Called(s, "request")

\* C15: with no check suite, or only suites without check runs, the check
\* stage answers true without asking for branch rules or check runs, the
\* approval follows, and the merge follows the approval.
C15_NothingToBlockOn ==
    \A h \in Procs :
        LET s == hs[h]
        IN  SuitesAnswered(s) /\ ValidSuites(s) = {} =>
                /\ s.processMerge = "true"
                /\ NoRulesNoRuns(s)
                /\ s.pc = "pulls.createReview" \/ Called(s, "pulls.createReview")
                /\ s.pc = "done" /\ s.outcome = "returned" => Called(s, "pulls.merge")

C15_Witness ==
    \E h \in Procs :
        /\ hs[h].pc = "done"
        /\ Called(hs[h], "pulls.merge")
        /\ Len(hs[h].headSuitesData.check_suites) = 2
        /\ ValidSuites(hs[h]) = {}
        /\ hs[h].headSuitesData.check_suites[1].status = "in_progress"

\* C16: with a suite that has check runs and is not completed, the
\* evaluation ends with the pending reason (not the reason of failed
\* required checks), no review and no merge call, and without asking for
\* branch rules or check runs.
C16_Pending ==
    \A h \in Procs :
        LET s == hs[h]
            suites == s.headSuitesData.check_suites
        IN  /\ SuitesAnswered(s)
            /\ \E i \in ValidSuites(s) : suites[i].status # "completed"
            => /\ s.pc = "done"
               /\ s.outcome = "returned"
               /\ s.processMerge = "false"
               /\ NoReviewNoMerge(s)
               /\ NoRulesNoRuns(s)
               /\ LastMsg(s) = "Some check suites are not yet completed, skipping auto-merge."
               /\ LastMsg(s) # "Not all required checks have passed, skipping auto-merge."

C16_Witness ==
    \E h \in Procs :
        /\ hs[h].pc = "done"
        /\ hs[h].processMerge = "false"
        /\ Len(hs[h].headSuitesData.check_suites) = 2
        /\ hs[h].headSuitesData.check_suites[1].status = "completed"
        /\ hs[h].headSuitesData.check_suites[1].latest_check_runs_count = 1
        /\ hs[h].headSuitesData.check_suites[2].status = "queued"
        /\ hs[h].headSuitesData.check_suites[2].latest_check_runs_count = 1

\* A run named name concluded success, skipped or neutral in one of the
\* check-run answers of the evaluation.
PassedIn(s, name) ==
    \E i \in 1..Len(s.checkRuns) : \E j \in 1..Len(s.checkRuns[i].check_runs) :
        /\ s.checkRuns[i].check_runs[j].name = name
        /\ s.checkRuns[i].check_runs[j].conclusion \in {"success", "skipped", "neutral"}

\* C17: with every suite that has runs completed and a non-empty list of
\* required contexts, the check runs of exactly the suites with runs are
\* asked for, and once all are answered the evaluation is vetoed for failed
\* required checks iff some required context is not the name of a run that
\* concluded success, skipped or neutral.
C17_RequiredChecks ==
    \A h \in Procs :
        LET s == hs[h]
            suites == s.headSuitesData.check_suites
            requests == SelectSeq(s.calls, LAMBDA c : c.op = "request")
            missing == \E k \in 1..Len(s.requiredChecks) : ~PassedIn(s, s.requiredChecks[k])
        IN  /\ SuitesAnswered(s)
            /\ ValidSuites(s) # {}
            /\ \A i \in ValidSuites(s) : suites[i].status = "completed"
            /\ s.requiredChecks # <<>>
            => /\ { requests[i].arg : i \in 1..Len(requests) }
                    = { suites[i].check_runs_url : i \in ValidSuites(s) }
               /\ Len(requests) = Cardinality(ValidSuites(s))
               /\ Len(s.checkRuns) = Len(requests)
               /\ AllFulfilled(s.checkRuns) =>
                     IF missing
                     THEN /\ s.pc = "done"
                          /\ s.processMerge = "false"
                          /\ NoReviewNoMerge(s)
                          /\ LastMsg(s) = "Not all required checks have passed, skipping auto-merge."
                     ELSE s.processMerge = "true"

C17_Witness ==
    \E h \in Procs :
        /\ hs[h].processMerge = "true"
        /\ hs[h].requiredChecks = <<"ci", "lint">>
        /\ Len(hs[h].checkRuns) = 2
        /\ Len(hs[h].headSuitesData.check_suites) = 2
        /\ hs[h].checkRuns[1] = Fulfilled(<< CheckRun("lint", "neutral") >>)
        /\ hs[h].checkRuns[2] = Fulfilled(<< CheckRun("ci", "skipped") >>)

\* The evaluation is a replay: its reviews list reports the steward's
\* approval and the pull request has been merged.
IsReplay(s) ==
    /\ s.pull_number # 0
    /\ \E i \in 1..Len(s.prReviewsData) : s.prReviewsData[i].user.id = stewardUserId
    /\ merged[s.pull_number]

\* C18 as stated: a replay after approval and merge makes no mutating call
\* and is ended by the already-merged guard.
C18_ReplayStopsAtMerged ==
    \A h \in Procs :
        LET s == hs[h]
        IN  IsReplay(s) =>
                /\ s.pc = "done"
                /\ s.processMerge = "false"
                /\ NoMutation(s)
                /\ LastMsg(s) = "is already merged, skipping auto-merge."

\* C18, amended: a replay after approval and merge makes no mutating call
\* and is ended by the already-reviewed guard, after the reviews list and
\* before the pull request is read.
C18_ReplayStopsAtReviewed ==
    \A h \in Procs :
        LET s == hs[h]
        IN  IsReplay(s) =>
                /\ s.pc = "done"
                /\ s.processMerge = "false"
                /\ NoMutation(s)
                /\ LastMsg(s) = "is already reviewed by steward, skipping auto-merge."
                /\ s.calls[Len(s.calls)].op = "pulls.listReviews"
                /\ ~Called(s, "pulls.get")

C18_Witness ==
    \E h \in Procs :
        /\ IsReplay(hs[h])
        /\ hs[h].pc = "done"
        /\ Len(hs[h].calls) = 2
        /\ Len(reviews[hs[h].pull_number]) = 1

\* The steward's review is on pull request n.
Approved(n) == \E i \in 1..Len(reviews[n]) : reviews[n][i].user.id = stewardUserId

\* C19: an evaluation whose createReview call failed (the call was made
\* and the pull request has no review by the steward) has ended with the
\* error propagated and has made no merge call.
C19_ApprovalFailure ==
    \A h \in Procs :
        LET s == hs[h]
        IN  Called(s, "pulls.createReview") /\ ~Approved(s.pull_number) =>
                /\ s.pc = "done"
                /\ s.outcome = "threw"
                /\ s.error = "HttpError"
                /\ ~Called(s, "pulls.merge")

C19_Witness ==
    \E h \in Procs :
        /\ hs[h].outcome = "threw"
        /\ hs[h].calls # <<>>
        /\ hs[h].calls[Len(hs[h].calls)].op = "pulls.createReview"
        /\ ~Approved(hs[h].pull_number)

\* C20: an evaluation whose merge call failed (the call was made and the
\* pull request is not merged) has ended normally, with the failure logged,
\* the merge call its last call and the approval still on the pull request.
C20_MergeFailure ==
    \A h \in Procs :
        LET s == hs[h]
        IN  Called(s, "pulls.merge") /\ ~merged[s.pull_number] =>
                /\ s.pc = "done"
                /\ s.outcome = "returned"
                /\ s.error = ""
                /\ s.calls[Len(s.calls)].op = "pulls.merge"
                /\ s.log[Len(s.log)].level = "console.error"
                /\ Approved(s.pull_number)

C20_Witness ==
    \E h \in Procs :
        /\ hs[h].pc = "done"
        /\ hs[h].outcome = "returned"
        /\ Called(hs[h], "pulls.merge")
        /\ ~merged[hs[h].pull_number]
        /\ Approved(hs[h].pull_number)

\* The evaluation is a retry: its reviews list reports the steward's
\* approval and the pull request is not merged (the merge that followed the
\* approval failed).
IsRetry(s) ==
    /\ s.pull_number # 0
    /\ \E i \in 1..Len(s.prReviewsData) : s.prReviewsData[i].user.id = stewardUserId
    /\ ~merged[s.pull_number]

\* C21: a delivery that follows an approval whose merge failed is
\* re-evaluated: the evaluation goes on from the reviews list to the pull
\* request (and from there, the other conditions holding, to the merge).
C21_MergeRetried ==
    \A h \in Procs :
        LET s == hs[h]
        IN  IsRetry(s) => s.pc = "pulls.get" \/ Called(s, "pulls.get")

\* C22: an evaluation whose config fetch failed with something other than
\* a 404 (a 500, or no response at all) ends with the error propagated.
C22_ConfigFetchFailure ==
    \A h \in Procs :
        LET s == hs[h]
        IN  s.stewardYmlData \in {Rejected(500), Rejected(0)} =>
                s.pc = "done" /\ s.outcome = "threw"

\* C23: an evaluation that reaches the configuration guard on a branch
\* with no catalog ecosystem in its name, the file absent or a file of the
\* documented shape that does not disable the steward, ends with an error
\* propagated.
C23_NoEcosystem ==
    \A h \in Procs :
        LET s == hs[h]
        IN  /\ s.pr # NoPullRequest
            /\ \A i \in 1..Len(ecosystems) : ~Includes(s.pr.head.ref, ecosystems[i])
            /\ \/ s.stewardYmlData = Rejected(404)
               \/ HoldsStewardYml(s) /\ s.stewardYmlData.content.doc.enable # "false"
            => s.pc = "done" /\ s.outcome = "threw"

\* The evaluation holds a .steward.yml that is a file whose content is a
\* mapping.
HoldsMapping(s) ==
    /\ s.stewardYmlData.kind = "object"
    /\ s.stewardYmlData.type = "file"
    /\ s.stewardYmlData.encoding = "base64"
    /\ s.stewardYmlData.content.present
    /\ s.stewardYmlData.content.base64
    /\ s.stewardYmlData.content.doc.kind = "map"

\* v ?? true, for v absent, null, true or false.
OrTrue(v) == IF v \in {"undefined", "null"} THEN TRUE ELSE v = "true"

\* C24: with a mapping for .steward.yml and a branch of ecosystem name, the
\* configuration guard passes iff (enable ?? true) && (entry?.enable ??
\* true), for enable fields absent, null, true or false and the
\* ecosystem's entry absent or a mapping.
C24_EffectiveEnablement ==
    \A h \in Procs :
        LET s == hs[h]
            doc == s.stewardYmlData.content.doc
            name == thisEcosystemString[s.pr.head.ref]
            entryEnable == IF doc.key = name /\ doc.entry = "map"
                           THEN doc.entryEnable ELSE "undefined"
        IN  /\ HoldsMapping(s)
            /\ name # ""
            /\ doc.enable \in {"undefined", "null", "true", "false"}
            /\ doc.key = name => doc.entry = "map"
            /\ entryEnable \in {"undefined", "null", "true", "false"}
            => IF OrTrue(doc.enable) /\ OrTrue(entryEnable)
               THEN s.pc = "checks.listSuitesForRef"
               ELSE s.pc = "done" /\ s.processMerge = "false"

\* The veto of a disabled steward, globally or for the ecosystem.
DisabledVeto(s) ==
    /\ s.processMerge = "false"
    /\ LastMsg(s) \in {"Steward is disabled.", "Steward for this ecosystem is disabled."}

\* C25: an evaluation vetoed because the steward is disabled, globally or
\* for the matched ecosystem, has made no mutating call: no comment, no
\* review, no merge, and it leaves no comment request in flight.
C25_DisabledNoMutation ==
    \A h \in Procs :
        LET s == hs[h]
        IN  DisabledVeto(s) =>
                /\ NoMutation(s)
                /\ \A i \in 1..Len(pending) : pending[i].body = NotAFileBody

C25_Witness ==
    \E h \in Procs :
        LET s == hs[h]
        IN  /\ DisabledVeto(s)
            /\ LastMsg(s) = "Steward for this ecosystem is disabled."
            /\ s.pc = "done"
            /\ Called(s, "repos.getContent")

\* The last call the evaluation has made ("" before the first).
LastCall(s) == IF s.calls = <<>> THEN "" ELSE s.calls[Len(s.calls)].op

\* C26: a failure of the advisory comment's calls (issues.listComments,
\* issues.createComment) does not abort the evaluation: no evaluation ends
\* with an error thrown by one of them.
C26_CommentFailureTolerated ==
    \A h \in Procs :
        LET s == hs[h]
        IN  s.pc = "done" /\ s.outcome = "threw" =>
                LastCall(s) \notin {"issues.listComments", "issues.createComment"}

\* The evaluation has issued its check-run requests.
Requested(s) == Called(s, "request")

\* C27: the check-run requests are joined before the required checks are
\* matched: the guard has an answer only when every request is fulfilled,
\* and an evaluation ended by a failed request has matched nothing and has
\* called neither createReview nor merge.
C27_JoinedFetches ==
    \A h \in Procs :
        LET s == hs[h]
        IN  /\ Requested(s) /\ s.processMerge # "" => AllFulfilled(s.checkRuns)
            /\ Requested(s) /\ ~AllFulfilled(s.checkRuns) /\ s.pc = "done" =>
                    /\ s.outcome = "threw"
                    /\ s.error = "HttpError"
                    /\ s.processMerge = ""
                    /\ NoReviewNoMerge(s)
                    /\ LastMsg(s) # "Not all required checks have passed, skipping auto-merge."

\* Two requests, the first fulfilled, the second failed.
C27_Witness ==
    \E h \in Procs :
        LET s == hs[h]
        IN  /\ Len(s.checkRuns) = 2
            /\ s.checkRuns[1].state = "fulfilled"
            /\ s.checkRuns[2].state = "pending"
            /\ s.pc = "done"
            /\ s.outcome = "threw"

\* C28: a veto by a guard that has a pull request is logged with that pull
\* request's number: the entry logged last by a vetoed evaluation of a pull
\* request carries the number.
C28_VetoLogsNumber ==
    \A h \in Procs :
        LET s == hs[h]
        IN  s.processMerge = "false" /\ s.pr # NoPullRequest =>
                /\ s.log # <<>>
                /\ s.log[Len(s.log)].pull_number = s.pr.number

\* The rules name a context to wait for: a required_status_checks rule
\* with parameters and a context.
NamesContext(rules) ==
    \E i \in 1..Len(rules) :
        /\ rules[i].type = "required_status_checks"
        /\ rules[i].hasParameters
        /\ rules[i].contexts # <<>>

\* repos.getBranchRules has answered (its rejection ends the evaluation).
RulesAnswered(s) ==
    /\ Called(s, "repos.getBranchRules")
    /\ ~(LastCall(s) = "repos.getBranchRules" /\ s.outcome = "threw")

\* C29: with every valid suite completed and no required_status_checks
\* rule naming a context on the base branch, the guard passes without a
\* check-run request, whatever the suites are.
C29_NoRequiredChecks ==
    /\ \A rules \in BranchRuleLists :
            RequiredChecks(rules) = <<>> <=> ~NamesContext(rules)
    /\ \A h \in Procs :
        LET s == hs[h]
        IN  RulesAnswered(s) /\ s.requiredChecks = <<>> =>
                /\ s.processMerge = "true"
                /\ ~Requested(s)
                /\ s.checkRuns = <<>>

\* The pass right after the answer, with two valid suites.
C29_Witness ==
    \E h \in Procs :
        LET s == hs[h]
        IN  /\ RulesAnswered(s)
            /\ s.requiredChecks = <<>>
            /\ Len(s.validSuites) = 2
            /\ s.pc = "pulls.createReview"

\* The four ends of an evaluation.
VetoOrPending(s) ==
    /\ s.outcome = "returned"
    /\ s.processMerge = "false"
    /\ NoReviewNoMerge(s)

ApprovedAndMerged(s) ==
    /\ s.outcome = "returned"
    /\ s.processMerge = "true"
    /\ LastCall(s) = "pulls.merge"
    /\ LastMsg(s) = "Successfully merged pull request"

ApprovedMergeFailed(s) ==
    /\ s.outcome = "returned"
    /\ s.processMerge = "true"
    /\ LastCall(s) = "pulls.merge"
    /\ s.log[Len(s.log)].level = "console.error"

FatalError(s) == s.outcome = "threw" /\ s.error # ""

Ends == <<VetoOrPending(hs[1]), ApprovedAndMerged(hs[1]),
          ApprovedMergeFailed(hs[1]), FatalError(hs[1])>>

\* How many calls of op the evaluation has made.
Calls(s, op) == Cardinality({i \in 1..Len(s.calls) : s.calls[i].op = op})

\* No call is made twice, but for the one request per valid suite.
NoRetry(s) ==
    \A i \in 1..Len(s.calls) :
        Calls(s, s.calls[i].op) <= IF s.calls[i].op = "request"
                                   THEN Len(s.validSuites) ELSE 1

EndsInOneOutcome ==
    /\ NoRetry(hs[1])
    /\ hs[1].pc = "done" => Cardinality({k \in 1..4 : Ends[k]}) = 1

\* C30: with every external call returning or failing, every accepted
\* delivery ends, in exactly one of veto or pending, approved and merged,
\* approved with a failed merge, or a fatal error, and no call is repeated.
C30_Terminates ==
    /\ []EndsInOneOutcome
    /\ Running(1) ~> hs[1].pc = "done"

\* An evaluation at its end after a rejected merge.
C30_Witness ==
    /\ hs[1].pc = "done"
    /\ ApprovedMergeFailed(hs[1])
    /\ Called(hs[1], "pulls.createReview")

\* The suites of the listing without those that have no check run.
WithoutEmptySuites(s) ==
    SelectSeq(s.headSuitesData.check_suites,
              LAMBDA cs : cs.latest_check_runs_count # 0)

\* C31: a suite with latest_check_runs_count = 0 counts as absent: the
\* evaluation goes on with the listing's other suites only, it is pending
\* only for a suite that has check runs, and no check-run request is for a
\* suite without check runs, also next to suites that have some.
C31_EmptySuiteIgnored ==
    \A h \in Procs :
        LET s == hs[h]
            suites == s.headSuitesData.check_suites
        IN  SuitesAnswered(s) =>
                /\ s.validSuites = WithoutEmptySuites(s)
                /\ LastMsg(s) = "Some check suites are not yet completed, skipping auto-merge."
                      => \E i \in ValidSuites(s) : suites[i].status # "completed"
                /\ \A k \in 1..Len(s.calls) :
                      s.calls[k].op = "request" =>
                          \E i \in ValidSuites(s) : s.calls[k].arg = suites[i].check_runs_url

\* A queued suite without check runs before a completed suite with one:
\* the one request is for the second.
C31_Witness ==
    \E h \in Procs :
        LET s == hs[h]
            suites == s.headSuitesData.check_suites
        IN  /\ Len(suites) = 2
            /\ suites[1].status = "queued"
            /\ suites[1].latest_check_runs_count = 0
            /\ suites[2].status = "completed"
            /\ Len(s.checkRuns) = 1
            /\ Called(s, "request")
            /\ s.processMerge = "true"

\* The evaluation holds a .steward.yml that is a regular file with decodable
\* content.
HoldsRegularFile(s) ==
    /\ s.stewardYmlData.kind = "object"
    /\ s.stewardYmlData.type = "file"
    /\ s.stewardYmlData.encoding = "base64"
    /\ s.stewardYmlData.content.present
    /\ s.stewardYmlData.content.base64

\* C32: a .steward.yml that is a regular file with an empty document or an
\* empty mapping acts as an absent file: on a branch of a known ecosystem
\* the evaluation posts no comment and goes on to the check status.
C32_EmptyFileAsAbsent ==
    \A h \in Procs :
        LET s == hs[h]
        IN  /\ HoldsRegularFile(s)
            /\ s.stewardYmlData.content.doc \in NoKeys
            /\ thisEcosystemString[s.pr.head.ref] # ""
            => /\ s.pc = "checks.listSuitesForRef"
               /\ ~Called(s, "issues.createComment")

\* C33: the comment that .steward.yml must be a file is asked for only when
\* getContent answered with something that is not a regular file; an
\* object of type file never brings it, whatever its content.
C33_NotAFileWording ==
    \A h \in Procs :
        LET s == hs[h]
        IN  (\E i \in 1..Len(s.calls) :
                /\ s.calls[i].op = "issues.createComment"
                /\ s.calls[i].arg = NotAFileBody)
            => NotRegularFile(s.stewardYmlData)

\* The reads the evaluation cannot do without.
RequiredReads ==
    {"pulls.listReviews", "pulls.get", "issues.listComments",
     "checks.listSuitesForRef", "repos.getBranchRules", "request"}

\* C34: an evaluation that ends at a required read either was vetoed by
\* that read's guard or had the read fail; the failure leaves the handler
\* as an error, and the evaluation has made no comment, review or merge
\* call.
C34_FatalReads ==
    \A h \in Procs :
        LET s == hs[h]
        IN  s.pc = "done" /\ LastCall(s) \in RequiredReads =>
                IF s.processMerge = "false"
                THEN s.outcome = "returned" /\ s.error = ""
                ELSE /\ s.outcome = "threw"
                     /\ s.error = "HttpError"
                     /\ s.processMerge = ""
                     /\ NoMutation(s)

\* The second of two check-run requests failed.
C34_Witness ==
    \E h \in Procs :
        LET s == hs[h]
        IN  /\ s.pc = "done"
            /\ s.outcome = "threw"
            /\ LastCall(s) = "request"
            /\ Len(s.checkRuns) = 2
            /\ s.checkRuns[2].state = "fulfilled"
            /\ NoMutation(s)

\* An evaluation that asks for a comment has passed guards 1 to 5 and saw
\* no comment of the steward.
CommentsAfterGuards ==
    \A h \in Procs :
        LET s == hs[h]
        IN  Called(s, "issues.createComment") =>
                /\ FirstFailingGuard(s) = ""
                /\ Called(s, "pulls.listReviews")
                /\ s.prData # NoPrData
                /\ Called(s, "issues.listComments")
                /\ ~s.hasComment

\* What the evaluation saw is what the pull request had: hasComment is set
\* iff the pull request has a comment of the steward when its comments are
\* listed.
SeesStewardComment ==
    \A h \in Procs :
        hs[h].pc = "issues.listComments" /\ hs'[h].pc = "repos.getContent" =>
            (hs'[h].hasComment <=>
                \E i \in 1..Len(comments[hs[h].pull_number]) :
                    comments[hs[h].pull_number][i].user.id = stewardUserId)

StewardReviews(n) ==
    Cardinality({ i \in 1..Len(reviews[n]) : reviews[n][i].user.id = stewardUserId })

\* The merge requests for pull request n among the calls of handler h's
\* evaluation.
MergeRequests(h, n) ==
    Cardinality({ i \in 1..Len(hs[h].calls) :
                    hs[h].calls[i].op = "pulls.merge" /\ hs[h].calls[i].pull_number = n })

\* C36: over deliveries for one pull request evaluated one after another,
\* the pull request gets at most one approving review of the steward, and
\* at most one merge request is made for it: of any two of the evaluations
\* at most one has made one, once, after its own approval.
C36_OnceInTurn ==
    \A n \in PRNumbers :
        /\ StewardReviews(n) <= 1
        /\ MergeRequests(1, n) + MergeRequests(2, n) <= 1
        /\ \A h \in Procs :
              MergeRequests(h, n) > 0 =>
                  Called(hs[h], "pulls.createReview") /\ StewardReviews(n) = 1

\* One evaluation approved and asked for the merge, which failed; the next
\* one stopped at the steward's review.
C36_Witness ==
    /\ hs[1].pc = "done"
    /\ hs[2].pc = "done"
    /\ MergeRequests(1, 1) = 1
    /\ ~merged[1]
    /\ LastMsg(hs[2]) = "is already reviewed by steward, skipping auto-merge."
    /\ StewardReviews(1) = 1

\* C37: with two deliveries for one pull request evaluated concurrently,
\* the pull request gets at most one approving review of the steward, at
\* most one merge request and at most one advisory comment in total.
C37_OnceConcurrently ==
    \A n \in PRNumbers :
        /\ StewardReviews(n) <= 1
        /\ MergeRequests(1, n) + MergeRequests(2, n) <= 1
        /\ AdvisoryComments(n) <= 1

\* The calls of the evaluation that name a pull request.
NumberedCalls ==
    {"pulls.listReviews", "pulls.get", "issues.listComments",
     "issues.createComment", "pulls.createReview", "pulls.merge"}

\* The evaluation acts on its pull request only.
ActsOnItsPullRequest ==
    \A h \in Procs :
        LET s == hs[h]
        IN  /\ s.pull_number # 0 => s.pull_number = s.pr.number
            /\ \A i \in 1..Len(s.calls) :
                  s.calls[i].op \in NumberedCalls =>
                      s.pr # NoPullRequest /\ s.calls[i].pull_number = s.pr.number
            /\ \A op \in Mutations : Calls(s, op) <= 1

\* The pull request of the evaluation is the last of the delivery's list.
TakesTheLast ==
    \A h \in Procs :
        hs[h].pc = "processMerge" /\ hs'[h].pc # "processMerge" =>
            hs'[h].pr = IF hs[h].payload = <<>> THEN NoPullRequest
                        ELSE hs[h].payload[Len(hs[h].payload)]

\* C38: a delivery acts on one pull request, the last of the check suite's
\* list: the evaluation's pull request is that one, every call that names
\* a pull request names its number, and at most one comment, one review
\* and one merge are asked for.
C38_OnePullRequest ==
    /\ []ActsOnItsPullRequest
    /\ [][TakesTheLast]_vars

\* A delivery with two pull requests, ended with the merge of the last.
C38_Witness ==
    \E h \in Procs :
        LET s == hs[h]
        IN  /\ s.payload = << PullRequest(2, "dependabot/npm_and_yarn/lodash-4.17.21", 1) >>
            /\ s.pr.number = 1
            /\ s.pc = "done"
            /\ Called(s, "pulls.createReview")
            /\ s.calls[Len(s.calls)] = Call("pulls.merge", 1, s.merge_method)

\* seq in reverse order.
Reversed(seq) == [i \in 1..Len(seq) |-> seq[Len(seq) + 1 - i]]

\* The answer of the match for the evaluation with checkRuns in place of
\* the answers it was given.
MatchOn(s, checkRuns) == MatchRequiredChecks([s EXCEPT !.checkRuns = checkRuns]).processMerge

\* C39: the match is by name over the union of the valid suites' runs: it
\* passes iff every required context is the name of some run that passed,
\* whatever other runs of that name concluded, and it is the same with the
\* suites in reverse order, with each suite's runs in reverse order, and
\* with all runs in one suite.
C39_UnionByName ==
    \A h \in Procs :
        LET s == hs[h]
        IN  Requested(s) /\ AllFulfilled(s.checkRuns) =>
                /\ s.processMerge = "true" <=>
                      \A k \in 1..Len(s.requiredChecks) : PassedIn(s, s.requiredChecks[k])
                /\ s.processMerge = "false" <=>
                      \E k \in 1..Len(s.requiredChecks) : ~PassedIn(s, s.requiredChecks[k])
                /\ MatchOn(s, Reversed(s.checkRuns)) = s.processMerge
                /\ MatchOn(s, [i \in 1..Len(s.checkRuns) |->
                                 Fulfilled(Reversed(s.checkRuns[i].check_runs))])
                      = s.processMerge
                /\ MatchOn(s, << Fulfilled(Flat([i \in 1..Len(s.checkRuns) |->
                                                    s.checkRuns[i].check_runs])) >>)
                      = s.processMerge

\* ci failed in the first suite and passed in the second: the match passes.
C39_Witness ==
    \E h \in Procs :
        LET s == hs[h]
        IN  /\ s.requiredChecks = <<"ci">>
            /\ Len(s.checkRuns) = 2
            /\ s.checkRuns[1] = Fulfilled(<< CheckRun("ci", "failure") >>)
            /\ s.checkRuns[2] = Fulfilled(<< CheckRun("ci", "success") >>)
            /\ s.processMerge = "true"

============================================================================
